---------------------------- MODULE Spec2Model ----------------------------
(***************************************************************************)
(* Model of scripts/update_images.py: update_html_files(root_dir) walks a  *)
(* directory tree and rewrites, in every file whose name ends in ".html"   *)
(* and whose directory path does not contain "node_modules", the extension *)
(* of the image that an <img ... src="..."> tag points to.                 *)
(*                                                                         *)
(* Text is a sequence of one-character strings.  Two specifications:       *)
(*   SubSpec  the substitution img_tag_pattern.sub(replace_ext, content)   *)
(*            applied to one file, twice in succession;                    *)
(*   Spec     one run of update_html_files over a directory tree, with     *)
(*            the I/O errors the host can raise.                           *)
(***************************************************************************)
EXTENDS Integers, Sequences, FiniteSets, TLC

VARIABLES
    content,      \* SubSpec: the text of the file under study (line 17 / 44)
    before,       \* SubSpec: its text before the latest pass
    passes,       \* SubSpec: "none", "once" or "twice": passes made over it
    root_dir,     \* Spec: the argument of update_html_files
    disk,         \* Spec: file path -> text now on disk
    disk0,        \* Spec: file path -> text on disk before the run
    stack,        \* Spec: os.walk's directories still to list
    dirpath,      \* Spec: the directory the loop body is in, or None
    filenames,    \* Spec: the files of dirpath the inner loop has not reached
    opened,       \* Spec: the paths opened for reading, in order
    written,      \* Spec: the paths whose text was replaced by new_content
    notices,      \* Spec: the paths printed after "Updating ", in order
    unlisted,     \* Spec: the directories whose listing failed
    status        \* Spec: "running", "done", "aborted", or "idle" in SubSpec

subVars == <<content, before, passes>>
fsVars == <<root_dir, disk, disk0, stack, dirpath, filenames, opened, written,
            notices, unlisted, status>>
vars == <<content, before, passes, root_dir, disk, disk0, stack, dirpath,
          filenames, opened, written, notices, unlisted, status>>

None == <<"None">>

Max(S) == CHOOSE x \in S : \A y \in S : y <= x

RECURSIVE Concat(_)
Concat(ss) == IF ss = <<>> THEN <<>> ELSE Head(ss) \o Concat(Tail(ss))

-----------------------------------------------------------------------------
(* The pattern of line 7, compiled with re.IGNORECASE:                     *)
(*   (<img\s+[^>]*src=["'])([^"']+\.)(jpg|png)(["'][^>]*>)                 *)

\* re.IGNORECASE: a letter of the pattern matches both of its cases.
Fold ==
    ("A" :> "a") @@ ("B" :> "b") @@ ("C" :> "c") @@ ("D" :> "d") @@ ("E" :> "e") @@
    ("F" :> "f") @@ ("G" :> "g") @@ ("H" :> "h") @@ ("I" :> "i") @@ ("J" :> "j") @@
    ("K" :> "k") @@ ("L" :> "l") @@ ("M" :> "m") @@ ("N" :> "n") @@ ("O" :> "o") @@
    ("P" :> "p") @@ ("Q" :> "q") @@ ("R" :> "r") @@ ("S" :> "s") @@ ("T" :> "t") @@
    ("U" :> "u") @@ ("V" :> "v") @@ ("W" :> "w") @@ ("X" :> "x") @@ ("Y" :> "y") @@
    ("Z" :> "z")

Lower(ch) == IF ch \in DOMAIN Fold THEN Fold[ch] ELSE ch

\* \s
IsSpace(ch) == ch \in {" ", "\t", "\n", "\r", "\f"}

\* ["']
IsQuote(ch) == ch \in {"\"", "'"}

\* the literal lit of the pattern matches s at position i, ignoring case
Literal(s, i, lit) ==
    /\ i >= 1
    /\ i + Len(lit) - 1 <= Len(s)
    /\ \A k \in 1..Len(lit) : Lower(s[i + k - 1]) = lit[k]

\* (jpg|png)
Extensions == { <<"j", "p", "g">>, <<"p", "n", "g">> }

\* Group 1, (<img\s+[^>]*src=["']), started at i: the positions q of the
\* quote that can end it.  \s+ takes the space at i+4; every character
\* between it and "src=" is taken by \s+ or [^>]*, so none of them is ">".
Group1Ends(s, i) ==
    IF Literal(s, i, <<"<", "i", "m", "g">>) /\ i + 4 <= Len(s) /\ IsSpace(s[i + 4])
    THEN { q \in (i + 9)..Len(s) :
             /\ IsQuote(s[q])
             /\ Literal(s, q - 4, <<"s", "r", "c", "=">>)
             /\ \A k \in (i + 5)..(q - 5) : s[k] # ">" }
    ELSE {}

\* Groups 2 and 3, ([^"']+\.)(jpg|png), followed by the quote that opens
\* group 4, after a group 1 that ended at q: the positions d of the dot
\* that can end group 2.  [^"']+ takes at least one character.
Group2Ends(s, q) ==
    { d \in (q + 2)..(Len(s) - 4) :
        /\ s[d] = "."
        /\ \A k \in (q + 1)..(d - 1) : ~IsQuote(s[k])
        /\ \E x \in Extensions : Literal(s, d + 1, x)
        /\ IsQuote(s[d + 4]) }

\* Group 4, (["'][^>]*>), whose quote is at c: the positions of the ">"
\* that can end it.  [^>]* cannot pass a ">".
Group4Ends(s, c) ==
    { e \in (c + 1)..Len(s) :
        /\ s[e] = ">"
        /\ \A k \in (c + 1)..(e - 1) : s[k] # ">" }

\* the ends of group 1 from which the rest of the pattern matches
MatchingGroup1Ends(s, i) ==
    { q \in Group1Ends(s, i) :
        \E d \in Group2Ends(s, q) : Group4Ends(s, d + 4) # {} }

\* img_tag_pattern.match(s, i): [^>]* and [^"']+ are greedy, so the match is
\* the one with the latest end of group 1, and then of group 2.
MatchAt(s, i) ==
    LET q == Max(MatchingGroup1Ends(s, i))
        d == Max({ x \in Group2Ends(s, q) : Group4Ends(s, x + 4) # {} })
        e == Max(Group4Ends(s, d + 4))
    IN  [start |-> i, g1 |-> q, g2 |-> d, g3 |-> d + 3, end |-> e]

HasMatchAt(s, i) == MatchingGroup1Ends(s, i) # {}

\* match.group(n)
Group(s, m, n) ==
    CASE n = 1 -> SubSeq(s, m.start, m.g1)
      [] n = 2 -> SubSeq(s, m.g1 + 1, m.g2)
      [] n = 3 -> SubSeq(s, m.g2 + 1, m.g3)
      [] n = 4 -> SubSeq(s, m.g3 + 1, m.end)

new_ext == <<"w", "e", "b", "p">>

\* a replacement that puts a dot of its own before the new extension
replace_ext_dot(s, m) ==
    Group(s, m, 1) \o Group(s, m, 2) \o <<".">> \o new_ext \o Group(s, m, 4)

\* replace_ext(match), lines 20-37
replace_ext(s, m) ==
    Group(s, m, 1) \o Group(s, m, 2) \o new_ext \o Group(s, m, 4)

\* img_tag_pattern.sub(replace_ext, s) from position i on: the leftmost
\* match is replaced and the scan goes on after its end.
RECURSIVE SubFrom(_, _)
SubFrom(s, i) ==
    IF i > Len(s) THEN <<>>
    ELSE IF HasMatchAt(s, i)
         THEN LET m == MatchAt(s, i) IN replace_ext(s, m) \o SubFrom(s, m.end + 1)
         ELSE <<s[i]>> \o SubFrom(s, i + 1)

\* line 39
Sub(s) == SubFrom(s, 1)

\* the matches img_tag_pattern.sub finds in s from position i on
RECURSIVE MatchesFrom(_, _)
MatchesFrom(s, i) ==
    IF i > Len(s) THEN {}
    ELSE IF HasMatchAt(s, i)
         THEN LET m == MatchAt(s, i) IN {m} \cup MatchesFrom(s, m.end + 1)
         ELSE MatchesFrom(s, i + 1)

Matches(s) == MatchesFrom(s, 1)

-----------------------------------------------------------------------------
(* The file texts SubSpec starts from: up to MaxElems elements, each an    *)
(* <img> tag of up to MaxAttrs attributes or one of four fixed elements.   *)

MaxElems == 2
MaxAttrs == 2

AttrSrc == <<" ", "s", "r", "c", "=", "\"", "a", ".", "j", "p", "g", "\"">>
AttrDataSrc ==
    <<" ", "d", "a", "t", "a", "-", "s", "r", "c", "=", "\"", "c", ".", "p", "n", "g", "\"">>
Attrs == {AttrSrc, AttrDataSrc}

ImgTag(as) == <<"<", "i", "m", "g">> \o Concat(as) \o <<">">>

\* <img alt="src=">
ImgAltOnly ==
    <<"<", "i", "m", "g", " ", "a", "l", "t", "=", "\"", "s", "r", "c", "=", "\"", ">">>
\* <link href=x.png">
LinkBare ==
    <<"<", "l", "i", "n", "k", " ", "h", "r", "e", "f", "=", "x", ".", "p", "n", "g", "\"", ">">>
\* <link href="f.png">
LinkIcon ==
    <<"<", "l", "i", "n", "k", " ", "h", "r", "e", "f", "=", "\"", "f", ".", "p", "n", "g", "\"", ">">>
\* <IMG SRC='//h/u.Jpg' ALT="x">: upper case, single quotes, a remote URL
ImgUpper ==
    <<"<", "I", "M", "G", " ", "S", "R", "C", "=", "'", "/", "/", "h", "/",
      "u", ".", "J", "p", "g", "'", " ", "A", "L", "T", "=", "\"", "x", "\"", ">">>

SeqsUpTo(S, lo, hi) == UNION { [1..k -> S] : k \in lo..hi }

Elements ==
    { ImgTag(as) : as \in SeqsUpTo(Attrs, 0, MaxAttrs) }
        \cup {ImgAltOnly, LinkBare, LinkIcon, ImgUpper}

Contents == { Concat(es) : es \in SeqsUpTo(Elements, 1, MaxElems) }

-----------------------------------------------------------------------------
(* SubSpec: lines 39-44 on one file, run twice.                            *)

FsIdle ==
    /\ root_dir = None /\ disk = <<>> /\ disk0 = <<>> /\ stack = <<>>
    /\ dirpath = None /\ filenames = {} /\ opened = <<>> /\ written = {}
    /\ notices = <<>> /\ unlisted = {} /\ status = "idle"

SubInit ==
    /\ content \in Contents
    /\ before = content
    /\ passes = "none"
    /\ FsIdle

\* lines 39-44: substitute, and write the file only when the text changed
Rewrite ==
    /\ status = "idle"
    /\ passes \in {"none", "once"}
    /\ LET new_content == Sub(content)
       IN  content' = IF new_content # content THEN new_content ELSE content
    /\ before' = content
    /\ passes' = IF passes = "none" THEN "once" ELSE "twice"
    /\ UNCHANGED fsVars

SubNext == Rewrite

SubSpec == SubInit /\ [][SubNext]_vars

-----------------------------------------------------------------------------
(* Spec: one run of update_html_files(root_dir) over a directory tree.     *)

node_modules == <<"n", "o", "d", "e", "_", "m", "o", "d", "u", "l", "e", "s">>
dot_html == <<".", "h", "t", "m", "l">>

\* lit in s (Python's substring test on str)
Contains(s, lit) ==
    \E i \in 1..(Len(s) - Len(lit) + 1) : SubSeq(s, i, i + Len(lit) - 1) = lit

\* s.endswith(suffix)
EndsWith(s, suffix) ==
    /\ Len(s) >= Len(suffix)
    /\ \A k \in 1..Len(suffix) : s[Len(s) - Len(suffix) + k] = suffix[k]

\* a skip test that looks only at the last segment of the path
InNodeModulesLast(path) == EndsWith(path, node_modules)

\* line 10: 'node_modules' in dirpath
InNodeModules(path) == Contains(path, node_modules)

\* a name test that ignores letter case
IsHtmlAnyCase(filename) ==
    EndsWith([k \in 1..Len(filename) |-> Lower(filename[k])], dot_html)

\* line 14: filename.endswith('.html')
IsHtml(filename) == EndsWith(filename, dot_html)

\* os.path.join(a, b), b relative
Join(a, b) == IF a # <<>> /\ a[Len(a)] = "/" THEN a \o b ELSE a \o <<"/">> \o b

\* The tree under the root: directory, relative to the root -> its listing.
NameSub == <<"s", "u", "b">>
NamePkg == <<"p", "k", "g">>
NameBackup ==
    <<"n", "o", "d", "e", "_", "m", "o", "d", "u", "l", "e", "s", "_", "b", "a", "c", "k", "u", "p">>
FileA == <<"a", ".", "h", "t", "m", "l">>
FileB == <<"b", ".", "h", "t", "m", "l">>
FileD == <<"d", ".", "h", "t", "m", "l">>
FileE == <<"e", ".", "h", "t", "m", "l">>
FileF == <<"f", ".", "h", "t", "m", "l">>
FileUpper == <<"i", ".", "H", "T", "M", "L">>
FileHtm == <<"i", ".", "h", "t", "m">>
FileBak == <<"i", ".", "h", "t", "m", "l", ".", "b", "a", "k">>
FileMixed == <<"i", ".", "H", "t", "m", "l">>

Listing(ds, fs) == [dirs |-> ds, files |-> fs]

Tree ==
    (<<>> :> Listing({NameSub, node_modules, NameBackup}, {FileA, FileUpper, FileHtm}))
    @@ (Join(<<>>, NameSub) :> Listing({}, {FileB, FileBak, FileMixed}))
    @@ (Join(<<>>, node_modules) :> Listing({NamePkg}, {FileE}))
    @@ (Join(Join(<<>>, node_modules), NamePkg) :> Listing({}, {FileD}))
    @@ (Join(<<>>, NameBackup) :> Listing({}, {FileF}))

\* the roots a run is started on: "." (line 47) and a directory whose own
\* name contains the text node_modules
RootDirs ==
    { <<".">>,
      <<"m", "y", "_", "n", "o", "d", "e", "_", "m", "o", "d", "u", "l", "e", "s">> }

\* <img src="x.jpg">
TextImg ==
    <<"<", "i", "m", "g", " ", "s", "r", "c", "=", "\"", "x", ".", "j", "p", "g", "\"", ">">>
\* <p>no images</p>
TextPlain ==
    <<"<", "p", ">", "n", "o", " ", "i", "m", "a", "g", "e", "s", "<", "/", "p", ">">>
FileTexts == {TextImg, TextPlain}
\* <img src="x.jpg"> and a line end of two characters, CR LF
TextCrLf == TextImg \o <<"\r", "\n">>

\* the texts a file can hold before the run
TextsOf(p) ==
    IF ~EndsWith(p, dot_html) THEN {TextImg}
    ELSE IF EndsWith(p, FileA) THEN FileTexts \cup {TextCrLf}
    ELSE FileTexts

\* os.linesep of the POSIX host the paths of this model belong to
linesep == <<"\n">>

\* f.read() of a file opened with open(filepath, 'r'): text mode with
\* universal newlines, so CR LF and a lone CR both read as "\n"
RECURSIVE ReadText(_)
ReadText(bytes) ==
    IF bytes = <<>> THEN <<>>
    ELSE IF Head(bytes) = "\r"
         THEN IF Len(bytes) >= 2 /\ bytes[2] = "\n"
              THEN <<"\n">> \o ReadText(Tail(Tail(bytes)))
              ELSE <<"\n">> \o ReadText(Tail(bytes))
         ELSE <<Head(bytes)>> \o ReadText(Tail(bytes))

\* f.write(text) to a file opened with open(filepath, 'w'): every "\n" is
\* written as os.linesep
RECURSIVE WriteText(_)
WriteText(text) ==
    IF text = <<>> THEN <<>>
    ELSE (IF Head(text) = "\n" THEN linesep ELSE <<Head(text)>>)
             \o WriteText(Tail(text))

\* every file path of the tree under root
FilePaths(root) ==
    UNION { { Join(root \o d, f) : f \in Tree[d].files } : d \in DOMAIN Tree }

\* the listing of the directory at path
ListingOf(path) == Tree[SubSeq(path, Len(root_dir) + 1, Len(path))]

\* the orders in which scandir can return the names of S
Orders(S) ==
    { o \in [1..Cardinality(S) -> S] : \A a, b \in DOMAIN o : a # b => o[a] # o[b] }

SubIdle == content = <<>> /\ before = <<>> /\ passes = "idle"

Init ==
    /\ root_dir \in RootDirs
    /\ disk \in [FilePaths(root_dir) -> FileTexts \cup {TextCrLf}]
    /\ \A p \in DOMAIN disk : disk[p] \in TextsOf(p)
    /\ disk0 = disk
    /\ stack = <<root_dir>>
    /\ dirpath = None
    /\ filenames = {}
    /\ opened = <<>>
    /\ written = {}
    /\ notices = <<>>
    /\ unlisted = {}
    /\ status = "running"
    /\ SubIdle

\* line 9: os.walk lists the next directory, yields it to the loop body and
\* will go down into its subdirectories after the body
ListDir ==
    /\ status = "running" /\ dirpath = None /\ stack # <<>>
    /\ LET top == Head(stack)
       IN  /\ dirpath' = top
           /\ filenames' = ListingOf(top).files
           /\ \E o \in Orders(ListingOf(top).dirs) :
                stack' = [k \in DOMAIN o |-> Join(top, o[k])] \o Tail(stack)
    /\ UNCHANGED <<root_dir, disk, disk0, opened, written, notices, unlisted, status>>
    /\ UNCHANGED subVars

\* line 9: listing the next directory fails; os.walk is called without
\* onerror, so it drops the error and the directory and goes on
ListDirFails ==
    /\ status = "running" /\ dirpath = None /\ stack # <<>>
    /\ unlisted' = unlisted \cup {Head(stack)}
    /\ stack' = Tail(stack)
    /\ UNCHANGED <<root_dir, disk, disk0, dirpath, filenames, opened, written,
                   notices, status>>
    /\ UNCHANGED subVars

\* lines 10-11: continue
SkipDir ==
    /\ status = "running" /\ dirpath # None
    /\ InNodeModules(dirpath)
    /\ dirpath' = None
    /\ filenames' = {}
    /\ UNCHANGED <<root_dir, disk, disk0, stack, opened, written, notices,
                   unlisted, status>>
    /\ UNCHANGED subVars

\* lines 13-14: a file name that does not end in .html
SkipFile ==
    /\ status = "running" /\ dirpath # None
    /\ ~InNodeModules(dirpath)
    /\ \E filename \in filenames :
         /\ ~IsHtml(filename)
         /\ filenames' = filenames \ {filename}
    /\ UNCHANGED <<root_dir, disk, disk0, stack, dirpath, opened, written,
                   notices, unlisted, status>>
    /\ UNCHANGED subVars

\* lines 15-17: open(filepath, 'r') or f.read() raises; nothing catches it
ReadFails ==
    /\ status = "running" /\ dirpath # None
    /\ ~InNodeModules(dirpath)
    /\ \E filename \in filenames :
         /\ IsHtml(filename)
         /\ opened' = Append(opened, Join(dirpath, filename))
    /\ status' = "aborted"
    /\ UNCHANGED <<root_dir, disk, disk0, stack, dirpath, filenames, written,
                   notices, unlisted>>
    /\ UNCHANGED subVars

\* lines 15-44 for one file, no error: read, substitute, and when the text
\* changed print the notice and write the file
ProcessFile ==
    /\ status = "running" /\ dirpath # None
    /\ ~InNodeModules(dirpath)
    /\ \E filename \in filenames :
         /\ IsHtml(filename)
         /\ LET filepath == Join(dirpath, filename)
                text == ReadText(disk[filepath])
                new_content == Sub(text)
            IN  /\ opened' = Append(opened, filepath)
                /\ IF new_content # text
                   THEN /\ notices' = Append(notices, filepath)
                        /\ disk' = [disk EXCEPT ![filepath] = WriteText(new_content)]
                        /\ written' = written \cup {filepath}
                   ELSE UNCHANGED <<notices, disk, written>>
         /\ filenames' = filenames \ {filename}
    /\ UNCHANGED <<root_dir, disk0, stack, dirpath, unlisted, status>>
    /\ UNCHANGED subVars

\* lines 15-44 for one file whose text changed: the notice is printed
\* (line 42), then open(filepath, 'w') raises and the file is as it was, or
\* f.write raises after open has truncated the file
WriteFails ==
    /\ status = "running" /\ dirpath # None
    /\ ~InNodeModules(dirpath)
    /\ \E filename \in filenames :
         LET filepath == Join(dirpath, filename)
             text == ReadText(disk[filepath])
         IN  /\ IsHtml(filename)
             /\ Sub(text) # text
             /\ opened' = Append(opened, filepath)
             /\ notices' = Append(notices, filepath)
             /\ \E left \in {disk[filepath], <<>>} :
                  disk' = [disk EXCEPT ![filepath] = left]
    /\ status' = "aborted"
    /\ UNCHANGED <<root_dir, disk0, stack, dirpath, filenames, written, unlisted>>
    /\ UNCHANGED subVars

\* line 13: the inner loop has been through every file of the directory
EndDir ==
    /\ status = "running" /\ dirpath # None
    /\ ~InNodeModules(dirpath)
    /\ filenames = {}
    /\ dirpath' = None
    /\ UNCHANGED <<root_dir, disk, disk0, stack, filenames, opened, written,
                   notices, unlisted, status>>
    /\ UNCHANGED subVars

\* line 9: os.walk has no directory left; update_html_files returns
Finish ==
    /\ status = "running" /\ dirpath = None /\ stack = <<>>
    /\ status' = "done"
    /\ UNCHANGED <<root_dir, disk, disk0, stack, dirpath, filenames, opened,
                   written, notices, unlisted>>
    /\ UNCHANGED subVars

Next ==
    \/ ListDir
    \/ ListDirFails
    \/ SkipDir
    \/ SkipFile
    \/ ReadFails
    \/ ProcessFile
    \/ WriteFails
    \/ EndDir
    \/ Finish

Spec == Init /\ [][Next]_vars

-----------------------------------------------------------------------------
(* Properties of the substitution, checked under SubSpec.                  *)

\* Reading of the text as HTML, as a browser reads it: a tag opened at
\* "<img" ends at the first ">" outside a quoted attribute value, and a
\* quote opens a value only right after "=".
RECURSIVE TagEnd(_, _, _)
TagEnd(s, j, quote) ==
    IF j > Len(s) THEN Len(s)
    ELSE IF quote = ""
         THEN IF s[j] = ">" THEN j
              ELSE IF IsQuote(s[j]) /\ s[j - 1] = "="
                   THEN TagEnd(s, j + 1, s[j])
                   ELSE TagEnd(s, j + 1, "")
         ELSE TagEnd(s, j + 1, IF s[j] = quote THEN "" ELSE quote)

IsImgStart(s, i) ==
    /\ Literal(s, i, <<"<", "i", "m", "g">>)
    /\ i + 4 <= Len(s)
    /\ (IsSpace(s[i + 4]) \/ s[i + 4] \in {">", "/"})

\* the text with its <img ...> elements cut out
RECURSIVE StripImgFrom(_, _)
StripImgFrom(s, i) ==
    IF i > Len(s) THEN <<>>
    ELSE IF IsImgStart(s, i)
         THEN StripImgFrom(s, TagEnd(s, i + 4, "") + 1)
         ELSE <<s[i]>> \o StripImgFrom(s, i + 1)

StripImg(s) == StripImgFrom(s, 1)

\* the positions a of an attribute named exactly src, in an <img> tag, whose
\* quoted value ends in .jpg or .png
QualifyingSrcs(s) ==
    { a \in 2..Len(s) :
        /\ IsSpace(s[a - 1])
        /\ Literal(s, a, <<"s", "r", "c", "=">>)
        /\ a + 4 <= Len(s)
        /\ IsQuote(s[a + 4])
        /\ \E i \in 1..(a - 5) :
             /\ IsImgStart(s, i)
             /\ \E c \in (a + 9)..TagEnd(s, i + 4, "") :
                  /\ s[c] = s[a + 4]
                  /\ \A k \in (a + 5)..(c - 1) : s[k] # s[a + 4]
                  /\ s[c - 4] = "."
                  /\ \E x \in Extensions : Literal(s, c - 3, x) }

\* s with the three extension letters of every match of M replaced by the
\* four letters w, e, b, p and every other character kept
RECURSIVE PatchFrom(_, _, _)
PatchFrom(s, M, k) ==
    IF k > Len(s) THEN <<>>
    ELSE IF \E m \in M : k = m.g2 + 1
         THEN <<"w", "e", "b", "p">> \o PatchFrom(s, M, k + 3)
         ELSE <<s[k]>> \o PatchFrom(s, M, k + 1)

\* C1: a second pass over a file changes nothing: the substitution applied
\* to its own result returns that result.
C1_Idempotent == passes = "twice" => content = before

\* C2: the text outside the <img ...> elements of a file is the same after
\* a pass as before it.
C2_Selective == passes # "none" => StripImg(content) = StripImg(before)

\* C4: a pass changes a file only in the extension letters of the matched
\* tags, which become the lowercase letters webp; the dot, the path, the
\* quotes, the other attributes and the letter case stay as they were.
C4_OnlyExtensionLetters ==
    passes # "none" =>
        LET M == Matches(before)
        IN  /\ content = PatchFrom(before, M, 1)
            /\ Len(content) = Len(before) + Cardinality(M)

\* C4 witness: a pass has rewritten two tags, one of them in upper case with
\* a second attribute after the rewritten one.
C4_Witness ==
    /\ passes = "once"
    /\ before = ImgUpper \o ImgTag(<<AttrSrc>>)
    /\ content # before

\* C5: after a pass no <img> tag is left whose src attribute value ends in
\* .jpg or .png.
C5_Complete == passes # "none" => QualifyingSrcs(content) = {}

\* C10: every extension a pass replaces ends the value of an attribute
\* named exactly src: the character before "src=" is white space.
C10_OnlySrc ==
    passes # "none" =>
        \A m \in Matches(before) : IsSpace(before[m.g1 - 5])

-----------------------------------------------------------------------------
(* Properties of a run, checked under Spec.                                *)

\* the directory names on the way to the file at path p: the runs of
\* characters between two "/" or between the start of p and a "/"
DirSegments(p) ==
    { SubSeq(p, a, b) : <<a, b>> \in
        { ab \in (1..Len(p)) \X (1..Len(p)) :
            /\ ab[1] <= ab[2]
            /\ \A k \in ab[1]..ab[2] : p[k] # "/"
            /\ (ab[1] = 1 \/ p[ab[1] - 1] = "/")
            /\ ab[2] < Len(p) /\ p[ab[2] + 1] = "/" } }

WasOpened(p) == \E k \in DOMAIN opened : opened[k] = p
WasNoticed(p) == \E k \in DOMAIN notices : notices[k] = p

\* the run's pass over the file at p changes its text
Changes(p) == Sub(ReadText(disk0[p])) # ReadText(disk0[p])

\* what the file at p holds once the run has rewritten it
Transformed(p) == WriteText(Sub(ReadText(disk0[p])))

\* the name of the file at p ends in the five characters .html
HasHtmlSuffix(p) ==
    Len(p) >= 5 /\ SubSeq(p, Len(p) - 4, Len(p)) = <<".", "h", "t", "m", "l">>

\* C3: a file below a directory named node_modules, however deep, is never
\* opened and never written.
C3_NodeModulesUntouched ==
    \A p \in DOMAIN disk :
        node_modules \in DirSegments(p) =>
            ~WasOpened(p) /\ p \notin written /\ disk[p] = disk0[p]

\* C3 witness: a complete run from "." that rewrote some file and passed
\* over a matching .html file two levels below node_modules.
C3_Witness ==
    /\ status = "done" /\ unlisted = {} /\ written # {}
    /\ \E p \in DOMAIN disk :
         /\ node_modules \in DirSegments(p)
         /\ NamePkg \in DirSegments(p)
         /\ HasHtmlSuffix(p)
         /\ disk0[p] = TextImg

\* C6: a notice has been printed for a file exactly when the file now holds
\* its transformed text, which differs from its original text.
C6_NoticeIffWritten ==
    \A p \in DOMAIN disk :
        WasNoticed(p) <=> (Changes(p) /\ disk[p] = Transformed(p))

\* C7: once an I/O operation has failed (a listing, a read, a write) the run
\* has stopped; the files read before the failing one hold their rewritten
\* text and the files not read hold their original text.
C7_FailFast ==
    /\ unlisted # {} => status = "aborted"
    /\ \A k \in DOMAIN opened :
         (k < Len(opened) \/ status # "aborted") =>
             disk[opened[k]] =
                 IF Changes(opened[k]) THEN Transformed(opened[k]) ELSE disk0[opened[k]]
    /\ \A p \in DOMAIN disk : ~WasOpened(p) => disk[p] = disk0[p]

\* C8: after a run without error the files read are exactly the files whose
\* name ends in .html and that have no directory named node_modules above
\* them.
C8_CandidateSet ==
    (status = "done" /\ unlisted = {}) =>
        { opened[k] : k \in DOMAIN opened } =
            { p \in DOMAIN disk :
                HasHtmlSuffix(p) /\ node_modules \notin DirSegments(p) }

\* C9: a file whose name does not end in lowercase .html is never opened and
\* keeps its text.
C9_OnlyHtmlNames ==
    \A p \in DOMAIN disk :
        ~HasHtmlSuffix(p) => ~WasOpened(p) /\ p \notin written /\ disk[p] = disk0[p]

\* C9 witness: a complete run from "." that rewrote some file and left the
\* files named .HTML, .Html, .htm and .html.bak, each holding a matching
\* <img> tag, unopened.
C9_Witness ==
    /\ status = "done" /\ unlisted = {} /\ written # {}
    /\ \A f \in {FileUpper, FileMixed, FileHtm, FileBak} :
         \E p \in DOMAIN disk :
            /\ EndsWith(p, f)
            /\ Changes(p)
            /\ ~WasOpened(p)

=============================================================================
